---- MODULE Spec2Model ----
(***************************************************************************)
(* The project store of the drag-and-drop task board (ProjectState) and    *)
(* its listeners.  Project objects live in a heap and are referred to by   *)
(* identity, arrays hold references, so that a shallow copy (slice) and a  *)
(* shared array can be told apart.                                         *)
(***************************************************************************)
EXTENDS Integers, Sequences, FiniteSets, TLC

\* ------------------------------------------------------------------ bounds
MaxProjects == 2
MaxListeners == 2
MaxMutations == 3

\* ------------------------------------------------------------ input domains
\* enum ProjectStatus
Active == "active"
Finished == "finished"
ProjectStatus == {Active, Finished}

\* Values Math.random().toString() may yield (a finite sample of the doubles in [0,1)).
Ids == {"0.1", "0.7"}
\* An id no project ever holds.
Nonexistent == "nonexistent"
\* The ids a caller may name in moveProject.
AllIds == Ids \cup {Nonexistent}
\* (title, description, people) triples handed to addProject.
Inputs == {[title |-> "Build API", description |-> "Design the REST layer", people |-> 3]}

\* What a listener does with the array it is called with.
Mutations == {"pop", "reverse"}
\* The callbacks that may be registered: the two column bindings of ProjectList,
\* and collaborators that change the array they receive or throw.
ListenerKinds ==
  {[kind |-> "column", type |-> t] : t \in ProjectStatus}
    \cup {[kind |-> "mutator", type |-> m] : m \in Mutations}
    \cup {[kind |-> "thrower", type |-> "none"]}
\* The two bindings the columns register.
ColumnKinds == {[kind |-> "column", type |-> t] : t \in ProjectStatus}

\* A collaborator that fails now and then (on every second call), with the column
\* bindings that may be registered around it.
FlakyKinds ==
  {[kind |-> "column", type |-> t] : t \in ProjectStatus}
    \cup {[kind |-> "flaky", type |-> "none"]}

\* Collaborators that call back into the store while they are notified: an
\* adder creates a follow-up project when it is shown exactly one project (its
\* type is the value Math.random() yields in that call), a mover moves the
\* first Active project it is shown to Finished.
ReentrantKinds ==
  {[kind |-> "column", type |-> t] : t \in ProjectStatus}
    \cup {[kind |-> "adder", type |-> id] : id \in Ids}
    \cup {[kind |-> "mover", type |-> "none"]}

VARIABLES
  heap,              \* the Project objects, by identity (1..Len(heap))
  projects,          \* ProjectState.projects: references into heap
  listeners,         \* State.listeners, in registration order
  args,              \* per listener: the array object of its latest invocation
  assignedProjects,  \* per listener: ProjectList.assignedProjects
  calls,             \* per listener: how often it has been invoked
  regAt,             \* per listener: value of mutations when it was registered
  mutations,         \* number of state-changing operations so far
  created,           \* the inputs of the addProject calls, in call order
  moved,             \* whether any moveProject has changed a status
  last,              \* the latest operation: its arguments and outcome
  instance,          \* ProjectState.instance: 0 is undefined, else the n-th object
  constructed,       \* how many ProjectState objects have been constructed
  got,               \* what the latest getInstance call returned (0: no call yet)
  form,              \* ProjectInput: the values of the three input elements
  dataTransfer,      \* the drag data store of the gesture in progress
  droppable,         \* per column: whether its list has the class 'droppable'
  over,              \* the column the drag hovers over, or "none"
  accepted           \* whether the latest dragover on that column was cancelled

vars == <<heap, projects, listeners, args, assignedProjects, calls, regAt,
          mutations, created, moved, last>>

\* The static side of the class and what its accessor handed out.
singletonVars == <<instance, constructed, got>>

\* The page: the form's inputs, the drag in progress, the columns' highlight.
pageVars == <<form, dataTransfer, droppable, over, accepted>>

allVars == <<vars, singletonVars, pageVars>>

\* Text the program looks into is a sequence of characters.
Blank == <<>>
\* clearInputs(): all three input elements hold ''.
Cleared == [title |-> Blank, description |-> Blank, people |-> Blank]
\* No drag in progress.
NoDrag == [active |-> FALSE, types |-> <<>>, text |-> "", item |-> 0]
\* The page once the script has run: empty inputs, no drag, no highlight.
PageInit ==
  /\ form = Cleared
  /\ dataTransfer = NoDrag
  /\ droppable = [c \in ProjectStatus |-> FALSE]
  /\ over = "none"
  /\ accepted = FALSE

\* A listener that has not been invoked holds no array.
NoArg == [own |-> TRUE, items |-> <<>>, set |-> FALSE]

\* ---------------------------------------------------------------- helpers
Reverse(seq) == [i \in 1..Len(seq) |-> seq[Len(seq) + 1 - i]]

\* A listener that keeps the whole snapshot.
NoFilter(h, arr, type) == arr

\* Array.prototype.filter with the predicate of ProjectList.configure.
RECURSIVE FilterByStatus(_, _, _)
FilterByStatus(h, arr, type) ==
  IF arr = <<>> THEN <<>>
  ELSE LET rest == FilterByStatus(h, Tail(arr), type)
       IN IF h[Head(arr)].status = type THEN <<Head(arr)>> \o rest ELSE rest

\* Array.prototype.find with the predicate of moveProject: the position of the
\* first project whose id is projectId, 0 for undefined.
RECURSIVE FindFrom(_, _, _, _)
FindFrom(h, arr, projectId, k) ==
  IF k > Len(arr) THEN 0
  ELSE IF h[arr[k]].id = projectId THEN k
  ELSE FindFrom(h, arr, projectId, k + 1)

\* A lookup that falls back to the first project when no id matches.
FindFirstOrHead(h, arr, projectId) ==
  LET k == FindFrom(h, arr, projectId, 1)
  IN IF k = 0 /\ arr # <<>> THEN 1 ELSE k

\* this.projects.find((project) => project.id === projectId)
Find(h, arr, projectId) == FindFrom(h, arr, projectId, 1)

\* A project created with the wrong status.
NewProjectFinished(id, input) ==
  [id |-> id, title |-> input.title, description |-> input.description,
   people |-> input.people, status |-> Finished]

\* new Project(Math.random().toString(), title, description, people, Active)
NewProject(id, input) ==
  [id |-> id, title |-> input.title, description |-> input.description,
   people |-> input.people, status |-> Active]

\* Handing out this.projects itself: the listener's array is the canonical one.
NoSlice(arr) == [own |-> FALSE, items |-> <<>>, set |-> TRUE]

\* this.projects.slice(): a new array object with the same elements.
Slice(arr) == [own |-> TRUE, items |-> arr, set |-> TRUE]

\* The elements of the array object a listener holds.
Items(s, i) == IF s.args[i].own THEN s.args[i].items ELSE s.projects

\* What a mutating listener does to an array.
Mutate(m, arr) ==
  CASE m = "pop" -> IF arr = <<>> THEN arr ELSE SubSeq(arr, 1, Len(arr) - 1)
    [] m = "reverse" -> Reverse(arr)

\* Store the elements of the array object listener i holds.
SetItems(s, i, v) ==
  IF s.args[i].own THEN [s EXCEPT !.args[i].items = v]
  ELSE [s EXCEPT !.projects = v]

\* An exception leaving a listener.
Throw(s) == [s EXCEPT !.threw = TRUE]

\* Array.prototype.unshift: the new element goes to the front.
Unshift(arr, ref) == <<ref>> \o arr

\* this.projects.push(newProject)
Push(arr, ref) == Append(arr, ref)

\* An assignment to every project that holds the found project's id.
SetStatusOfAllWithId(s, ref, newStatus) ==
  [s EXCEPT !.heap = [r \in 1..Len(@) |->
                        IF @[r].id = @[ref].id
                        THEN [@[r] EXCEPT !.status = newStatus]
                        ELSE @[r]]]

\* An assignment that is lost.
KeepStatus(s, ref, newStatus) == s

\* project.status = newStatus
SetStatus(s, ref, newStatus) == [s EXCEPT !.heap[ref].status = newStatus]

\* A guard without the status comparison: if (project)
AnyStatus(k, status, newStatus) == k # 0

\* if (project && project.status !== newStatus)
ShouldMove(k, status, newStatus) == k # 0 /\ status # newStatus

\* What a listener hands to addProject when it creates a project itself.
FollowUp ==
  [title |-> "Follow up", description |-> "Created by a listener", people |-> 1]

RECURSIVE UpdateListeners(_)

\* addProject called by a listener during its notification: the push and a
\* whole pass of its own, before the call returns into the listener.
AddProjectIn(s, id, input) ==
  UpdateListeners([s EXCEPT !.heap = Append(@, NewProject(id, input)),
                            !.projects = Push(@, Len(s.heap) + 1)])

\* moveProject called by a listener during its notification.
MoveProjectIn(s, projectId, newStatus) ==
  LET k == Find(s.heap, s.projects, projectId)
      status == IF k = 0 THEN "" ELSE s.heap[s.projects[k]].status
  IN IF ShouldMove(k, status, newStatus)
     THEN UpdateListeners(SetStatus(s, s.projects[k], newStatus))
     ELSE s

\* What listener i is handed in a call: the array object (the ordinal of the
\* slice() call of this operation that made it, 0 for this.projects itself), its
\* elements, the Project objects as they are at that moment, and what
\* this.projects holds at that moment.
Delivery(s, i, arg) ==
  LET arr == IF arg.own THEN arg.items ELSE s.projects
  IN [listener |-> i, array |-> IF arg.own THEN s.allocs ELSE 0,
      snapshot |-> arr,
      records |-> [k \in 1..Len(arr) |-> s.heap[arr[k]]],
      canonical |-> s.projects]

\* listener(arg): one call of listener i with the array object arg.
Invoke(s, i, arg) ==
  LET l == s.listeners[i]
      s0 == [s EXCEPT !.args[i] = arg,
                      !.calls[i] = @ + 1,
                      !.pass = Append(@, Delivery(s, i, arg))]
  IN CASE l.kind = "column" ->
            [s0 EXCEPT !.assignedProjects[i] =
                          FilterByStatus(s0.heap, Items(s0, i), l.type)]
       [] l.kind = "mutator" -> SetItems(s0, i, Mutate(l.type, Items(s0, i)))
       [] l.kind = "thrower" -> Throw(s0)
       [] l.kind = "flaky" -> IF s0.calls[i] % 2 = 0 THEN Throw(s0) ELSE s0
       [] l.kind = "adder" ->
            IF Len(Items(s0, i)) = 1
            THEN AddProjectIn(s0, l.type, FollowUp)
            ELSE s0
       [] l.kind = "mover" ->
            LET act == FilterByStatus(s0.heap, Items(s0, i), Active)
            IN IF act = <<>> THEN s0
               ELSE MoveProjectIn(s0, s0.heap[Head(act)].id, Finished)

\* The loop with a try/catch around the call, going on to the next listener.
RECURSIVE NotifyCatching(_, _)
NotifyCatching(s, i) ==
  IF i > Len(s.listeners) THEN s
  ELSE LET s1 == Invoke([s EXCEPT !.allocs = @ + 1], i, Slice(s.projects))
       IN NotifyCatching([s1 EXCEPT !.threw = FALSE], i + 1)

\* A loop that takes the newest project out again when a listener throws.
RECURSIVE NotifyUndo(_, _)
NotifyUndo(s, i) ==
  IF i > Len(s.listeners) THEN s
  ELSE LET s1 == Invoke([s EXCEPT !.allocs = @ + 1], i, Slice(s.projects))
       IN IF s1.threw
          THEN [s1 EXCEPT !.projects = SubSeq(@, 1, Len(@) - 1)]
          ELSE NotifyUndo(s1, i + 1)

\* for (const listener of this.listeners) listener(this.projects.slice())
\* Every iteration makes its own copy.  Nothing catches what a listener throws:
\* the loop ends there.
RECURSIVE NotifyFrom(_, _)
NotifyFrom(s, i) ==
  IF i > Len(s.listeners) THEN s
  ELSE LET s1 == Invoke([s EXCEPT !.allocs = @ + 1], i, Slice(s.projects))
       IN IF s1.threw THEN s1 ELSE NotifyFrom(s1, i + 1)

\* A loop over one array object: each listener is handed what the listeners
\* before it have left of it.
RECURSIVE NotifyShared(_, _, _)
NotifyShared(s, i, snap) ==
  IF i > Len(s.listeners) THEN s
  ELSE LET s1 == Invoke(s, i, Slice(snap))
       IN IF s1.threw THEN s1 ELSE NotifyShared(s1, i + 1, Items(s1, i))

\* One slice() before the loop, the same array passed to every listener.
UpdateListenersOneCopy(s) == NotifyShared([s EXCEPT !.allocs = 1], 1, s.projects)

\* A loop over copies of what this.projects held when the loop began.
RECURSIVE NotifyOf(_, _, _)
NotifyOf(s, i, snap) ==
  IF i > Len(s.listeners) THEN s
  ELSE LET s1 == Invoke([s EXCEPT !.allocs = @ + 1], i, Slice(snap))
       IN IF s1.threw THEN s1 ELSE NotifyOf(s1, i + 1, snap)

\* The projects read once, before the loop.
UpdateListenersSnapshotOnce(s) == NotifyOf(s, 1, s.projects)

\* A loop that starts at the second listener.
SkipFirstListener(s) == NotifyFrom(s, 2)

\* ProjectState.updateListeners
UpdateListeners(s) == NotifyFrom(s, 1)

\* The store and its listeners as one value, for the operators above.
Store ==
  [heap |-> heap, projects |-> projects, listeners |-> listeners, args |-> args,
   assignedProjects |-> assignedProjects, calls |-> calls,
   threw |-> FALSE, pass |-> <<>>, allocs |-> 0]

Commit(s) ==
  /\ heap' = s.heap
  /\ projects' = s.projects
  /\ listeners' = s.listeners
  /\ args' = s.args
  /\ assignedProjects' = s.assignedProjects
  /\ calls' = s.calls

\* The value of a call that returns nothing.
Undefined == "undefined"

\* An operation that hands the id of the newest project back to its caller.
ReturnsNewId(op, s) ==
  IF op = "addProject" THEN s.heap[s.projects[Len(s.projects)]].id ELSE Undefined

\* addListener, addProject and moveProject have no return statement.
Returned(op, s) == Undefined

\* What the caller of an operation observes: the value returned, the exception
\* that reached it, if any, and the listener calls made, in order, each with the
\* array it was given.  changed: whether the operation changed the store's state.
Op(op, changed, s) ==
  [op |-> op, changed |-> changed, threw |-> s.threw, pass |-> s.pass,
   returned |-> Returned(op, s)]

\* ------------------------------------------------------------------- Init
\* The state once `const projectState = ProjectState.getInstance()` has run.
Init ==
  /\ heap = <<>>
  /\ projects = <<>>
  /\ listeners = <<>>
  /\ args = <<>>
  /\ assignedProjects = <<>>
  /\ calls = <<>>
  /\ regAt = <<>>
  /\ mutations = 0
  /\ created = <<>>
  /\ moved = FALSE
  /\ last = [op |-> "getInstance", changed |-> FALSE, threw |-> FALSE, pass |-> <<>>,
             returned |-> Undefined]
  /\ instance = 1
  /\ constructed = 1
  /\ got = 1
  /\ PageInit

\* ---------------------------------------------------------------- actions
\* A registration that also calls the new listener at once with the current
\* projects (what State.addListener does not do).
AddListenerAndCall(l) ==
  /\ Len(listeners) < MaxListeners
  /\ LET s0 == [Store EXCEPT !.listeners = Append(@, l),
                             !.args = Append(@, NoArg),
                             !.assignedProjects = Append(@, <<>>),
                             !.calls = Append(@, 0)]
         s == Invoke(s0, Len(s0.listeners), Slice(s0.projects))
     IN /\ Commit(s)
        /\ last' = Op("addListener", FALSE, s)
  /\ regAt' = Append(regAt, mutations)
  /\ UNCHANGED <<mutations, created, moved>>

\* State.addListener: this.listeners.push(listener)
AddListener(l) ==
  /\ Len(listeners) < MaxListeners
  /\ LET s == [Store EXCEPT !.listeners = Append(@, l),
                            !.args = Append(@, NoArg),
                            !.assignedProjects = Append(@, <<>>),
                            !.calls = Append(@, 0)]
     IN /\ Commit(s)
        /\ last' = Op("addListener", FALSE, s)
  /\ regAt' = Append(regAt, mutations)
  /\ UNCHANGED <<mutations, created, moved>>

\* ProjectState.addProject
AddProject(id, input) ==
  /\ Len(heap) < MaxProjects
  /\ mutations < MaxMutations
  /\ LET pushed == [Store EXCEPT !.heap = Append(@, NewProject(id, input)),
                                 !.projects = Push(@, Len(heap) + 1)]
         s == UpdateListeners(pushed)
     IN /\ Commit(s)
        /\ last' = Op("addProject", TRUE, s)
  /\ mutations' = mutations + 1
  /\ created' = Append(created, input)
  /\ UNCHANGED <<regAt, moved>>

\* ProjectState.moveProject
MoveProject(projectId, newStatus) ==
  LET k == Find(heap, projects, projectId)
      status == IF k = 0 THEN "" ELSE heap[projects[k]].status
  IN IF ShouldMove(k, status, newStatus)
     THEN /\ mutations < MaxMutations
          /\ LET set == SetStatus(Store, projects[k], newStatus)
                 s == UpdateListeners(set)
             IN /\ Commit(s)
                /\ last' = Op("moveProject", TRUE, s)
          /\ mutations' = mutations + 1
          /\ moved' = TRUE
          /\ UNCHANGED <<regAt, created>>
     ELSE /\ last' = Op("moveProject", FALSE, Store)
          /\ UNCHANGED <<heap, projects, listeners, args, assignedProjects,
                         calls, regAt, mutations, created, moved>>

Next ==
  \/ \E l \in ListenerKinds : AddListener(l) /\ UNCHANGED <<singletonVars, pageVars>>
  \/ \E id \in Ids, input \in Inputs :
       AddProject(id, input) /\ UNCHANGED <<singletonVars, pageVars>>
  \/ \E projectId \in Ids \cup {Nonexistent}, newStatus \in ProjectStatus :
       MoveProject(projectId, newStatus) /\ UNCHANGED <<singletonVars, pageVars>>

Spec == Init /\ [][Next]_vars

\* The store with a listener that fails on some calls only.
NextFlaky ==
  \/ \E l \in FlakyKinds : AddListener(l) /\ UNCHANGED <<singletonVars, pageVars>>
  \/ \E id \in Ids, input \in Inputs :
       AddProject(id, input) /\ UNCHANGED <<singletonVars, pageVars>>
  \/ \E projectId \in AllIds, newStatus \in ProjectStatus :
       MoveProject(projectId, newStatus) /\ UNCHANGED <<singletonVars, pageVars>>

SpecFlaky == Init /\ [][NextFlaky]_vars

\* The store with listeners that call addProject or moveProject themselves.
NextReentrant ==
  \/ \E l \in ReentrantKinds :
       AddListener(l) /\ UNCHANGED <<singletonVars, pageVars>>
  \/ \E id \in Ids, input \in Inputs :
       AddProject(id, input) /\ UNCHANGED <<singletonVars, pageVars>>
  \/ \E projectId \in AllIds, newStatus \in ProjectStatus :
       MoveProject(projectId, newStatus) /\ UNCHANGED <<singletonVars, pageVars>>

SpecReentrant == Init /\ [][NextReentrant]_vars

\* ------------------------------------------------------------ the accessor
\* The class before anything has called getInstance: the static field is
\* undefined and no object exists.
InitSingleton ==
  /\ heap = <<>>
  /\ projects = <<>>
  /\ listeners = <<>>
  /\ args = <<>>
  /\ assignedProjects = <<>>
  /\ calls = <<>>
  /\ regAt = <<>>
  /\ mutations = 0
  /\ created = <<>>
  /\ moved = FALSE
  /\ last = [op |-> "load", changed |-> FALSE, threw |-> FALSE, pass |-> <<>>,
             returned |-> Undefined]
  /\ instance = 0
  /\ constructed = 0
  /\ got = 0
  /\ PageInit

\* An accessor that makes a new object on every call.
AlwaysConstruct(inst) == TRUE

\* if (this.instance) return this.instance;
ShouldConstruct(inst) == inst = 0

\* static getInstance().  A new ProjectState has an empty projects array and
\* an empty listeners array; the store variables are the fields of the object
\* the static field refers to.
GetInstance ==
  /\ IF ShouldConstruct(instance)
     THEN /\ constructed' = constructed + 1
          /\ instance' = constructed + 1
          /\ heap' = <<>>
          /\ projects' = <<>>
          /\ listeners' = <<>>
          /\ args' = <<>>
          /\ assignedProjects' = <<>>
          /\ calls' = <<>>
          /\ regAt' = <<>>
     ELSE UNCHANGED <<instance, constructed, heap, projects, listeners, args,
                      assignedProjects, calls, regAt>>
  /\ got' = instance'
  /\ last' = [op |-> "getInstance", changed |-> FALSE, threw |-> FALSE,
              pass |-> <<>>, returned |-> Undefined]
  /\ UNCHANGED <<mutations, created, moved>>

\* The columns and the form reach the store through what getInstance returned.
NextSingleton ==
  \/ GetInstance /\ UNCHANGED pageVars
  \/ /\ got # 0
     /\ \E l \in ColumnKinds : AddListener(l)
     /\ UNCHANGED <<singletonVars, pageVars>>
  \/ /\ got # 0
     /\ \E id \in Ids, input \in Inputs : AddProject(id, input)
     /\ UNCHANGED <<singletonVars, pageVars>>
  \/ /\ got # 0
     /\ \E projectId \in AllIds, newStatus \in ProjectStatus :
          MoveProject(projectId, newStatus)
     /\ UNCHANGED <<singletonVars, pageVars>>

SpecSingleton == InitSingleton /\ [][NextSingleton]_allVars

\* ---------------------------------------------------------------- the form
\* What a user may have typed into the three input elements.
Titles == {<<" ">>, <<"A", "P", "I">>}
Descriptions == {<<"F", "i", "v", "e", "5">>, <<"D", "e", "s", "i", "g", "n">>}
Peoples == {Blank, <<"0">>, <<"3">>, <<"7">>, <<"3", "a">>}

\* The store as the script leaves it: new ProjectInput(), then the Active and the
\* Finished column, each of which registers its listener.
InitLoaded ==
  /\ heap = <<>>
  /\ projects = <<>>
  /\ listeners = <<[kind |-> "column", type |-> Active],
                   [kind |-> "column", type |-> Finished]>>
  /\ args = <<NoArg, NoArg>>
  /\ assignedProjects = <<<<>>, <<>>>>
  /\ calls = <<0, 0>>
  /\ regAt = <<0, 0>>
  /\ mutations = 0
  /\ created = <<>>
  /\ moved = FALSE
  /\ last = [op |-> "addListener", changed |-> FALSE, threw |-> FALSE,
             pass |-> <<>>, returned |-> Undefined]
  /\ instance = 1
  /\ constructed = 1
  /\ got = 1
  /\ PageInit

\* Numbers: an integer or NaN.
NaN == [nan |-> TRUE, n |-> 0]
Num(n) == [nan |-> FALSE, n |-> n]

Whitespace == {" "}
DigitValue ==
  [c \in {"0", "1", "2", "3", "4", "5", "6", "7", "8", "9"} |->
     CASE c = "0" -> 0 [] c = "1" -> 1 [] c = "2" -> 2 [] c = "3" -> 3
       [] c = "4" -> 4 [] c = "5" -> 5 [] c = "6" -> 6 [] c = "7" -> 7
       [] c = "8" -> 8 [] c = "9" -> 9]

\* String.prototype.trim
RECURSIVE TrimStart(_)
TrimStart(str) ==
  IF str # <<>> /\ Head(str) \in Whitespace THEN TrimStart(Tail(str)) ELSE str
Trim(str) == Reverse(TrimStart(Reverse(TrimStart(str))))

\* The value of a sequence of decimal digits.
RECURSIVE Decimal(_)
Decimal(str) ==
  IF str = <<>> THEN 0
  ELSE Decimal(SubSeq(str, 1, Len(str) - 1)) * 10 + DigitValue[str[Len(str)]]

\* Unary plus on a string (ToNumber), for text made of digits, letters, blanks
\* and "-": blank text is 0, an optionally negated run of digits is its value,
\* anything else is NaN.
ToNumber(str) ==
  LET t == Trim(str)
      neg == t # <<>> /\ Head(t) = "-"
      d == IF neg THEN Tail(t) ELSE t
  IN IF t = <<>> THEN Num(0)
     ELSE IF d # <<>> /\ \A k \in 1..Len(d) : d[k] \in DOMAIN DigitValue
          THEN Num(IF neg THEN 0 - Decimal(d) ELSE Decimal(d))
          ELSE NaN

\* A Validatable: the value with its typeof, and each optional limit as the set
\* of its values (empty when the property is absent).
Validatable(type, value, required, minLength, maxLength, min, max) ==
  [type |-> type, value |-> value, required |-> required,
   minLength |-> minLength, maxLength |-> maxLength, min |-> min, max |-> max]

\* function validate(input).  required looks at the trimmed text (a number's
\* text is never blank); the length limits apply to strings only, min and max
\* to numbers only; every comparison is strict.
Validate(input) ==
  /\ input.required =>
       (input.type = "string" => Len(Trim(input.value)) # 0)
  /\ \A m \in input.minLength :
       input.type = "string" => Len(input.value) > m
  /\ \A m \in input.maxLength :
       input.type = "string" => Len(input.value) < m
  /\ \A m \in input.min :
       input.type = "number" => (~input.value.nan /\ input.value.n > m)
  /\ \A m \in input.max :
       input.type = "number" => (~input.value.nan /\ input.value.n < m)

\* ProjectInput.processUserInput: the set holding the triple it returns, empty
\* when it returns nothing.  All three values are the inputs' strings.
ProcessUserInput ==
  LET titleValidator ==
        Validatable("string", form.title, TRUE, {}, {}, {}, {})
      descriptionValidator ==
        Validatable("string", form.description, TRUE, {5}, {}, {}, {})
      peopleValidator ==
        Validatable("string", form.people, TRUE, {}, {}, {1}, {5})
  IN IF \/ ~Validate(titleValidator)
        \/ ~Validate(descriptionValidator)
        \/ ~Validate(peopleValidator)
     THEN {}
     ELSE {[title |-> form.title, description |-> form.description,
            people |-> ToNumber(form.people)]}

\* The user edits the inputs.
Type(title, description, people) ==
  /\ form' = [title |-> title, description |-> description, people |-> people]
  /\ UNCHANGED <<vars, singletonVars, dataTransfer, droppable, over, accepted>>

\* ProjectInput.submitHandler
SubmitHandler ==
  LET userInput == ProcessUserInput
  IN IF userInput # {}
     THEN /\ \E input \in userInput, id \in Ids : AddProject(id, input)
          /\ form' = Cleared
          /\ UNCHANGED <<singletonVars, dataTransfer, droppable, over, accepted>>
     ELSE UNCHANGED allVars

NextForm ==
  \/ \E title \in Titles, description \in Descriptions, people \in Peoples :
       Type(title, description, people)
  \/ SubmitHandler

SpecForm == InitLoaded /\ [][NextForm]_allVars

\* ------------------------------------------------------------ drag and drop
TextPlain == "text/plain"

\* Drags that start outside the project items: files, a selection of rich text
\* (which also offers plain text), a selection of plain text.
ExternalDrags ==
  {[types |-> <<"Files">>, text |-> ""],
   [types |-> <<"text/html", TextPlain>>, text |-> "0.1"],
   [types |-> <<TextPlain>>, text |-> "0.7"]}

\* The projects that have an item on the page: renderProjects makes one
\* ProjectItem for each project of each column's assignedProjects.
Rendered ==
  UNION {{assignedProjects[i][k] : k \in 1..Len(assignedProjects[i])} :
           i \in {j \in 1..Len(listeners) : listeners[j].kind = "column"}}

\* A column that lets everything be dropped.
AcceptsAny(dt) == TRUE

\* event.dataTransfer && event.dataTransfer.types[0] === 'text/plain'
Accepts(dt) == dt.active /\ dt.types # <<>> /\ dt.types[1] = TextPlain

\* dataTransfer.getData(format): the data of that format, '' when there is none.
GetData(dt, format) ==
  IF \E k \in 1..Len(dt.types) : dt.types[k] = format THEN dt.text ELSE ""

\* this.type === ProjectStatus.Active ? ProjectStatus.Active : ProjectStatus.Finished
TargetStatus(type) == IF type = Active THEN Active ELSE Finished

\* ProjectItem.dragStartHandler of the item of project r: the drag data store
\* holds the project's id as its one item, of type text/plain.
DragStart(r) ==
  /\ ~dataTransfer.active
  /\ r \in Rendered
  /\ dataTransfer' = [active |-> TRUE, types |-> <<TextPlain>>,
                       text |-> heap[r].id, item |-> r]
  /\ UNCHANGED <<vars, singletonVars, form, droppable, over, accepted>>

\* A drag from elsewhere enters the page.
ExternalDragEnter(drag) ==
  /\ ~dataTransfer.active
  /\ dataTransfer' = [active |-> TRUE, types |-> drag.types,
                       text |-> drag.text, item |-> 0]
  /\ UNCHANGED <<vars, singletonVars, form, droppable, over, accepted>>

\* ProjectList.dragOverHandler of column c.  The platform takes the column as
\* a drop target only if the handler cancelled the event.
DragOver(c) ==
  /\ dataTransfer.active
  /\ over \in {"none", c}
  /\ over' = c
  /\ IF Accepts(dataTransfer)
     THEN /\ accepted' = TRUE
          /\ droppable' = [droppable EXCEPT ![c] = TRUE]
     ELSE /\ accepted' = FALSE
          /\ UNCHANGED droppable
  /\ UNCHANGED <<vars, singletonVars, form, dataTransfer>>

\* ProjectList.dragLeaveHandler of column c: the drag moves out of the column.
DragLeave(c) ==
  /\ dataTransfer.active
  /\ over = c
  /\ droppable' = [droppable EXCEPT ![c] = FALSE]
  /\ over' = "none"
  /\ accepted' = FALSE
  /\ UNCHANGED <<vars, singletonVars, form, dataTransfer>>

\* ProjectList.dropHandler of column c.  The platform fires drop, and no
\* dragleave, when the button is released over a target that accepted; the
\* dragend that follows runs ProjectItem.dragEndHandler, which only logs.
Drop(c) ==
  /\ dataTransfer.active
  /\ over = c
  /\ accepted
  /\ MoveProject(GetData(dataTransfer, TextPlain), TargetStatus(c))
  /\ dataTransfer' = NoDrag
  /\ over' = "none"
  /\ accepted' = FALSE
  /\ UNCHANGED <<singletonVars, form, droppable>>

\* The drag ends without a drop (released where nothing accepted, or Escape):
\* the platform fires dragleave at the column under the drag, then dragend.
DragCancel ==
  /\ dataTransfer.active
  /\ droppable' = IF over = "none" THEN droppable
                  ELSE [droppable EXCEPT ![over] = FALSE]
  /\ dataTransfer' = NoDrag
  /\ over' = "none"
  /\ accepted' = FALSE
  /\ UNCHANGED <<vars, singletonVars, form>>

NextDnD ==
  \/ /\ ~dataTransfer.active
     /\ \E id \in Ids, input \in Inputs : AddProject(id, input)
     /\ UNCHANGED <<singletonVars, pageVars>>
  \/ \E r \in 1..Len(heap) : DragStart(r)
  \/ \E drag \in ExternalDrags : ExternalDragEnter(drag)
  \/ \E c \in ProjectStatus : DragOver(c)
  \/ \E c \in ProjectStatus : DragLeave(c)
  \/ \E c \in ProjectStatus : Drop(c)
  \/ DragCancel

SpecDnD == InitLoaded /\ [][NextDnD]_allVars

\* ------------------------------------------------------------------ claims
\* The (title, description, people) of a Project object.
Fields(p) == [title |-> p.title, description |-> p.description, people |-> p.people]

\* Whether the store holds no project with this id.
NoProjectHasId(id) == \A k \in 1..Len(projects) : heap[projects[k]].id # id

\* The listeners called in the latest operation, in call order.
PassListeners == [d \in 1..Len(last.pass) |-> last.pass[d].listener]

\* The position of the first listener that throws, 0 when none does.
FirstThrower ==
  IF \E i \in 1..Len(listeners) : listeners[i].kind = "thrower"
  THEN CHOOSE i \in 1..Len(listeners) :
         /\ listeners[i].kind = "thrower"
         /\ \A j \in 1..(i - 1) : listeners[j].kind # "thrower"
  ELSE 0

\* What a no-op leaves alone: the store, the registry and every listener.
NothingHappens ==
  /\ UNCHANGED <<heap, projects, listeners, args, assignedProjects, calls,
                 mutations>>
  /\ last'.pass = <<>>
  /\ ~last'.threw

\* C1: append-only creation. After N addProject calls the project sequence has
\* exactly N entries, the k-th being the object made by the k-th call with the
\* title, description and people passed to it; while no moveProject has changed
\* a status every entry is Active; and every snapshot delivered by the latest
\* addProject call is that same sequence.
C1_AppendOnlyCreation ==
  /\ Len(projects) = Len(created)
  /\ Len(heap) = Len(created)
  /\ \A k \in 1..Len(projects) :
       /\ projects[k] = k
       /\ Fields(heap[k]) = created[k]
       /\ ~moved => heap[k].status = Active
  /\ last.op = "addProject" =>
       \A d \in 1..Len(last.pass) :
         /\ last.pass[d].snapshot = projects
         /\ \A k \in 1..Len(projects) :
              /\ Fields(last.pass[d].records[k]) = created[k]
              /\ ~moved => last.pass[d].records[k].status = Active

C1_Witness ==
  /\ Len(projects) = 2
  /\ ~moved
  /\ last.op = "addProject"
  /\ Len(last.pass) >= 1

\* C2: effective transition. A moveProject(id, newStatus) whose lookup finds a
\* project with another status sets that project's status to newStatus, leaves
\* the sequence as it is, and makes one pass over the listeners in which every
\* snapshot delivered has the same projects in the same order and shows the
\* project with newStatus.
C2_EffectiveTransition ==
  [][\A id \in AllIds, st \in ProjectStatus :
       LET k == FindFrom(heap, projects, id, 1)
       IN (k # 0 /\ heap[projects[k]].status # st /\ MoveProject(id, st)) =>
            /\ heap'[projects[k]].status = st
            /\ projects' = projects
            /\ Len(heap') = Len(heap)
            /\ last'.changed
            /\ listeners # <<>> => last'.pass # <<>>
            /\ \A d \in 1..Len(last'.pass) :
                 /\ last'.pass[d].listener = d
                 /\ last'.pass[d].snapshot = projects
                 /\ Len(last'.pass[d].records) = Len(projects)
                 /\ \A j \in 1..Len(projects) :
                      last'.pass[d].records[j].id = heap[projects[j]].id
                 /\ last'.pass[d].records[k].status = st]_vars

C2_Witness ==
  /\ last.op = "moveProject"
  /\ last.changed
  /\ Len(last.pass) = 2
  /\ Len(projects) = 2
  /\ \E k \in 1..2 : last.pass[2].records[k].status = Finished

\* C3: idempotent transition. A moveProject(id, s) whose lookup finds a project
\* that already has status s changes nothing and calls no listener; and after
\* any moveProject(id, s) for a held id the project the lookup finds has status
\* s, so that the same call made again is such a no-op.
C3_IdempotentTransition ==
  [][\A id \in AllIds, st \in ProjectStatus :
       LET k == FindFrom(heap, projects, id, 1)
       IN (k # 0 /\ MoveProject(id, st)) =>
            /\ heap[projects[k]].status = st => NothingHappens
            /\ LET k2 == FindFrom(heap', projects', id, 1)
               IN k2 # 0 /\ heap'[projects'[k2]].status = st]_vars

C3_Witness ==
  /\ last.op = "moveProject"
  /\ ~last.changed
  /\ moved
  /\ listeners # <<>>
  /\ \E k \in 1..Len(projects) : heap[projects[k]].status = Finished

\* C4: unknown-id safety. A moveProject naming an id that no project holds
\* raises nothing, calls no listener and changes neither the projects, their
\* statuses nor the listener registry.
C4_UnknownIdSafety ==
  [][\A id \in AllIds, st \in ProjectStatus :
       (NoProjectHasId(id) /\ MoveProject(id, st)) => NothingHappens]_vars

C4_Witness ==
  /\ last.op = "moveProject"
  /\ ~last.changed
  /\ projects # <<>>
  /\ listeners # <<>>
  /\ \E id \in Ids : NoProjectHasId(id)
  /\ \A k \in 1..Len(projects) : heap[projects[k]].status = Active

\* C5: uniqueness. No two projects of the store have the same id.
C5_Uniqueness ==
  \A i, j \in 1..Len(projects) :
    i # j => heap[projects[i]].id # heap[projects[j]].id

\* The listeners a complete pass calls: all of them, or those up to and
\* including the first that throws.
PassEnd == IF FirstThrower = 0 THEN Len(listeners) ELSE FirstThrower

\* C6: notification fan-out. A state-changing operation calls every registered
\* listener once, in registration order, before it returns; so, as long as no
\* listener before it has thrown, the number of calls a listener has received
\* equals the number of state-changing operations since its registration.
C6_NotificationFanOut ==
  /\ \A i \in 1..Len(listeners) :
       i <= PassEnd => calls[i] = mutations - regAt[i]
  /\ (last.changed /\ FirstThrower = 0) =>
       PassListeners = [d \in 1..Len(listeners) |-> d]

C6_Witness ==
  /\ FirstThrower = 0
  /\ Len(listeners) = 2
  /\ regAt = <<0, 1>>
  /\ calls = <<3, 2>>
  /\ last.changed
  /\ Len(last.pass) = 2

\* C7: snapshot isolation. Whatever a listener does to the array it receives,
\* no listener holds the canonical array; the canonical sequence changes only by
\* the store's own push; every snapshot delivered in a pass is the canonical
\* sequence, untouched by the listeners called before; and the array a listener
\* holds from an earlier pass stays as that listener left it.
C7_SnapshotIsolation ==
  [][/\ \A i \in 1..Len(listeners') : args'[i].own
     /\ projects' = IF Len(heap') > Len(heap)
                    THEN Append(projects, Len(heap'))
                    ELSE projects
     /\ last'.changed =>
          \A d \in 1..Len(last'.pass) : last'.pass[d].snapshot = projects'
     /\ \A i \in 1..Len(listeners) :
          /\ calls'[i] = calls[i] => args'[i] = args[i]
          /\ (calls'[i] # calls[i] /\ listeners[i].kind # "mutator") =>
               args'[i].items = projects']_vars

C7_Witness ==
  /\ Len(listeners) = 2
  /\ listeners[1].kind = "mutator"
  /\ listeners[2].kind = "column"
  /\ last.changed
  /\ Len(last.pass) = 2
  /\ Len(projects) = 2
  /\ args[1].set /\ args[1].items # projects
  /\ args[2].set /\ args[2].items = projects

\* C8: status state machine. Every project has one status, Active or Finished,
\* and no project is ever stuck: for each project of the store some moveProject
\* call reaches it, that is, the lookup by its id finds it.
C8_StatusStateMachine ==
  /\ \A r \in 1..Len(heap) : heap[r].status \in ProjectStatus
  /\ \A k \in 1..Len(projects) :
       FindFrom(heap, projects, heap[projects[k]].id, 1) = k

\* C8, the part about single steps: a project is created Active, and a status
\* changes only in a moveProject naming the project's id, to the other status.
C8_StatusSteps ==
  [][/\ \A r \in 1..Len(heap') : r > Len(heap) => heap'[r].status = Active
     /\ \A r \in 1..Len(heap) :
          heap'[r].status # heap[r].status =>
            /\ last'.op = "moveProject"
            /\ heap'[r].status \in ProjectStatus \ {heap[r].status}
            /\ \E st \in ProjectStatus : MoveProject(heap[r].id, st)
            /\ \A q \in 1..Len(heap) : q # r => heap'[q] = heap[q]]_vars

\* C9: subscribe has no immediate effect. addListener appends the callback at
\* the end of the registry and does nothing else: no listener is called, the
\* projects and every earlier listener stay as they are; no listener is ever
\* removed or moved; and a listener holds no snapshot until a state-changing
\* operation follows its registration.
C9_SubscribeNoEffect ==
  [][/\ Len(listeners') >= Len(listeners)
     /\ SubSeq(listeners', 1, Len(listeners)) = listeners
     /\ Len(listeners') > Len(listeners) =>
          /\ \E l \in ListenerKinds : listeners' = Append(listeners, l)
          /\ UNCHANGED <<heap, projects, mutations>>
          /\ calls' = Append(calls, 0)
          /\ args' = Append(args, NoArg)
          /\ assignedProjects' = Append(assignedProjects, <<>>)
          /\ last'.pass = <<>>
          /\ ~last'.threw
     /\ \A i \in 1..Len(listeners') :
          mutations' = regAt'[i] => (calls'[i] = 0 /\ ~args'[i].set)]_vars

C9_Witness ==
  /\ last.op = "addListener"
  /\ Len(listeners) = 2
  /\ Len(projects) = 2
  /\ calls[1] = 2
  /\ calls[2] = 0
  /\ ~args[2].set

\* C10: listener failure. When the N-th listener throws in a pass, listeners
\* 1..N have been called once each, in order, the listeners after N have not
\* been called (being registered after N, they never are), and the exception
\* reaches the caller of addProject or moveProject; when no listener throws,
\* none reaches it.
C10_ListenerFailure ==
  last.changed =>
    /\ PassListeners = [d \in 1..PassEnd |-> d]
    /\ last.threw = (FirstThrower # 0)
    /\ \A i \in 1..Len(listeners) :
         i > PassEnd => (calls[i] = 0 /\ ~args[i].set)

C10_Witness ==
  /\ last.changed
  /\ last.threw
  /\ Len(listeners) = 2
  /\ listeners[1].kind = "thrower"
  /\ calls = <<2, 0>>
  /\ regAt = <<0, 0>>

\* C14 as stated: addProject returns the id of the project it has just created,
\* the id of the last entry of the project sequence.
C14_ReturnsNewId ==
  last.op = "addProject" => last.returned = heap[projects[Len(projects)]].id

\* C14 as amended: addProject returns nothing; the id of the project just
\* created reaches the outside only in the snapshots delivered to the
\* listeners, as the id of their last entry.
C14_ReturnsNothing ==
  last.op = "addProject" =>
    /\ last.returned = Undefined
    /\ \A d \in 1..Len(last.pass) :
         /\ Len(last.pass[d].records) = Len(projects)
         /\ last.pass[d].records[Len(projects)].id
              = heap[projects[Len(projects)]].id

C14_Witness ==
  /\ last.op = "addProject"
  /\ ~last.threw
  /\ Len(last.pass) = 2
  /\ Len(projects) = 2

\* C16 as stated: one snapshot per notification. All listeners called in a pass
\* are handed the same array object.
C16_OneSnapshot ==
  last.changed =>
    \A d1, d2 \in 1..Len(last.pass) : last.pass[d1].array = last.pass[d2].array

\* C16 as amended: one copy per listener call. In a pass the d-th call is
\* handed the array made by the d-th slice() of that pass, an array of its own,
\* whose elements are those of the canonical sequence whatever the listeners
\* called before have done to theirs.
C16_CopyPerListener ==
  last.changed =>
    \A d \in 1..Len(last.pass) :
      /\ last.pass[d].array = d
      /\ \A e \in 1..Len(last.pass) :
           e # d => last.pass[e].array # last.pass[d].array
      /\ last.pass[d].snapshot = projects

C16_Witness ==
  /\ last.changed
  /\ Len(last.pass) = 2
  /\ listeners[1].kind = "mutator"
  /\ args[1].items # projects
  /\ last.pass[2].snapshot = projects
  /\ Len(projects) = 2

\* The positions of the column listeners of a status that were registered
\* before any project was created and that no throwing listener precedes.
ColumnsOf(type) ==
  {i \in 1..Len(listeners) :
     /\ listeners[i] = [kind |-> "column", type |-> type]
     /\ regAt[i] = 0
     /\ i <= PassEnd}

\* The projects of an array, as a set.
Range(arr) == {arr[k] : k \in 1..Len(arr)}

\* Whether a sequence of references is in creation order, without repetition.
Increasing(arr) == \A a, b \in 1..Len(arr) : a < b => arr[a] < arr[b]

\* C17: columns partition the projects. An Active column and a Finished column
\* subscribed before any project exists, with no throwing listener before them,
\* hold after every operation exactly the projects with their status, in
\* creation order; so every project is in exactly one of the two.
C17_ColumnsPartition ==
  \A a \in ColumnsOf(Active), f \in ColumnsOf(Finished) :
    /\ Increasing(assignedProjects[a]) /\ Increasing(assignedProjects[f])
    /\ Range(assignedProjects[a]) = {r \in Range(projects) : heap[r].status = Active}
    /\ Range(assignedProjects[f]) = {r \in Range(projects) : heap[r].status = Finished}
    /\ Range(assignedProjects[a]) \cap Range(assignedProjects[f]) = {}
    /\ Range(assignedProjects[a]) \cup Range(assignedProjects[f]) = Range(projects)

C17_Witness ==
  /\ ColumnsOf(Active) # {}
  /\ ColumnsOf(Finished) # {}
  /\ Len(projects) = 2
  /\ \E a \in ColumnsOf(Active), f \in ColumnsOf(Finished) :
       /\ Len(assignedProjects[a]) = 1
       /\ Len(assignedProjects[f]) = 1
  /\ last.op = "moveProject"
  /\ last.changed

\* The id, title, description and people of a Project object.
Identity(p) ==
  [id |-> p.id, title |-> p.title, description |-> p.description,
   people |-> p.people]

\* C18: immutable identity and order. In every step the project sequence stays
\* as it is or grows by one entry at its end; no entry is removed or changes
\* its position; the id, title, description and people of an existing project
\* stay as they are; and at most one status field changes, in a moveProject.
C18_ImmutableIdentityAndOrder ==
  [][/\ \/ projects' = projects
        \/ /\ Len(projects') = Len(projects) + 1
           /\ SubSeq(projects', 1, Len(projects)) = projects
           /\ projects'[Len(projects')] \notin Range(projects)
           /\ last'.op = "addProject"
     /\ Len(heap') >= Len(heap)
     /\ \A r \in 1..Len(heap) : Identity(heap'[r]) = Identity(heap[r])
     /\ \A r, q \in 1..Len(heap) :
          (heap'[r].status # heap[r].status /\ heap'[q].status # heap[q].status)
            => (r = q /\ last'.op = "moveProject" /\ projects' = projects)]_vars

C18_Witness ==
  /\ Len(projects) = 2
  /\ moved
  /\ Len(listeners) = 2
  /\ heap[1].status = Active
  /\ heap[2].status = Finished
  /\ last.op = "addListener"

\* C20: no rollback on listener failure. Whether or not a listener throws in
\* its pass, a state-changing operation leaves its mutation in the store (the
\* project appended, the status set); the listeners the pass did not reach keep
\* the array and the list they had; and every snapshot a pass delivers is the
\* whole canonical sequence with the current statuses, earlier mutations
\* included.
C20_NoRollback ==
  [][last'.changed =>
       /\ last'.op = "addProject" =>
            /\ Len(heap') = Len(heap) + 1
            /\ projects' = Append(projects, Len(heap'))
       /\ last'.op = "moveProject" =>
            /\ projects' = projects
            /\ \E r \in 1..Len(heap) : heap'[r].status # heap[r].status
       /\ mutations' = mutations + 1
       /\ \A i \in 1..Len(listeners) :
            i > Len(last'.pass) =>
              /\ args'[i] = args[i]
              /\ assignedProjects'[i] = assignedProjects[i]
       /\ \A d \in 1..Len(last'.pass) :
            /\ last'.pass[d].snapshot = projects'
            /\ last'.pass[d].records
                 = [k \in 1..Len(projects') |-> heap'[projects'[k]]]]_vars

\* A column behind a flaky listener: it saw the first project, was skipped when
\* the second was added, and has received both in the third operation.
C20_Witness ==
  /\ Len(listeners) = 2
  /\ listeners[1].kind = "flaky"
  /\ listeners[2].kind = "column"
  /\ calls = <<3, 2>>
  /\ mutations = 3
  /\ Len(projects) = 2
  /\ args[2].items = projects
  /\ ~last.threw

\* The state in between: the mutation is in the store, the column's view is stale.
C20_Stale ==
  /\ Len(listeners) = 2
  /\ listeners[1].kind = "flaky"
  /\ listeners[2].kind = "column"
  /\ last.threw
  /\ Len(projects) = 2
  /\ Len(args[2].items) = 1

\* C15: singleton store. The first getInstance call constructs the store and
\* every call returns that one object: at most one ProjectState is ever
\* constructed, the static field never changes once set, and a getInstance call
\* leaves the project sequence and the listener registry as they are; no step
\* makes either of them shorter.
C15_Singleton ==
  /\ [](/\ constructed <= 1
        /\ instance = constructed
        /\ got \in {0, instance})
  /\ [][/\ instance # 0 => instance' = instance
        /\ last'.op = "getInstance" =>
             /\ got' = instance'
             /\ got' # 0
             /\ got # 0 => got' = got
             /\ projects' = projects
             /\ listeners' = listeners
             /\ heap' = heap
        /\ Len(projects') >= Len(projects)
        /\ SubSeq(projects', 1, Len(projects)) = projects
        /\ Len(listeners') >= Len(listeners)
        /\ SubSeq(listeners', 1, Len(listeners)) = listeners]_allVars

\* getInstance called again once the store holds two projects and both columns.
C15_Witness ==
  /\ last.op = "getInstance"
  /\ got = 1
  /\ constructed = 1
  /\ Len(projects) = 2
  /\ Len(listeners) = 2
  /\ moved

\* Whether text is a decimal numeral of an integer in 1..5.
PeopleInRange(str) ==
  LET n == ToNumber(str)
  IN Trim(str) # <<>> /\ ~n.nan /\ n.n \in 1..5

\* C13: validated creation input. A submit calls the store only when title and
\* description are non-empty and people is an integer in [1,5]: every project
\* the form creates has such values, and a submit of any other input leaves the
\* projects alone and invokes no listener.
C13_ValidatedInput ==
  /\ [](\A r \in 1..Len(heap) :
          /\ heap[r].title # Blank
          /\ heap[r].description # Blank
          /\ ~heap[r].people.nan
          /\ heap[r].people.n \in 1..5)
  /\ [][SubmitHandler =>
          \/ /\ form.title # Blank
             /\ form.description # Blank
             /\ PeopleInRange(form.people)
          \/ UNCHANGED <<heap, projects, calls>>]_allVars

\* What the form does guarantee: the store is called exactly when the title is
\* not blank, the description is longer than five characters and people is not
\* blank; the project then holds the title and the description as typed and
\* ToNumber of people.
C13_WhatIsValidated ==
  [][SubmitHandler =>
       IF /\ Trim(form.title) # Blank
          /\ Len(form.description) > 5
          /\ Trim(form.description) # Blank
          /\ Trim(form.people) # Blank
          /\ Len(heap) < MaxProjects
          /\ mutations < MaxMutations
       THEN /\ Len(heap') = Len(heap) + 1
            /\ Fields(heap'[Len(heap')])
                 = [title |-> form.title, description |-> form.description,
                    people |-> ToNumber(form.people)]
            /\ form' = Cleared
       ELSE UNCHANGED allVars]_allVars

\* C11: drop maps to the target column's own status. A drag started on a
\* project item carries that project's id as its single text/plain payload, and
\* after the item of project p is dropped on column C, project p has status C;
\* a drop on the item's own column changes nothing and notifies nobody.
C11_DropSetsStatus ==
  /\ [](dataTransfer.item # 0 =>
          /\ dataTransfer.types = <<TextPlain>>
          /\ dataTransfer.text = heap[dataTransfer.item].id)
  /\ [][\A c \in ProjectStatus :
          (Drop(c) /\ dataTransfer.item # 0) =>
            /\ heap'[dataTransfer.item].status = c
            /\ heap[dataTransfer.item].status = c =>
                 (heap' = heap /\ calls' = calls)]_allVars

\* What a drop of an item does: the first project holding the item's id gets
\* the column's status, which is the item's project whenever no other project
\* shares its id.
C11_DropMovesFirstMatch ==
  [][\A c \in ProjectStatus :
       (Drop(c) /\ dataTransfer.item # 0) =>
         LET p == dataTransfer.item
             k == Find(heap, projects, heap[p].id)
         IN /\ k # 0
            /\ heap'[projects[k]].status = c
            /\ (\A q \in 1..Len(heap) : heap[q].id = heap[p].id => q = p) =>
                 /\ heap'[p].status = c
                 /\ heap[p].status = c => (heap' = heap /\ calls' = calls)]_allVars

\* C12: drop acceptance by media type. A column accepts a drag, and is
\* highlighted for it, only when the drag's first type is text/plain; a
\* project's status changes only in a drop of a drag so accepted, hence never
\* through a drag that carries no plain text.
C12_AcceptsPlainTextOnly ==
  /\ [](accepted =>
          /\ dataTransfer.active
          /\ over # "none"
          /\ dataTransfer.types # <<>>
          /\ dataTransfer.types[1] = TextPlain)
  /\ [][/\ (accepted' /\ ~accepted) => droppable'[over']
        /\ (\E r \in 1..Len(heap) : heap'[r].status # heap[r].status) =>
             /\ accepted
             /\ dataTransfer.types # <<>>
             /\ dataTransfer.types[1] = TextPlain
             /\ \A r \in 1..Len(heap) :
                  heap'[r].status # heap[r].status =>
                    (heap'[r].status = over /\ heap[r].id = dataTransfer.text)
        /\ (\A k \in 1..Len(dataTransfer.types) :
              dataTransfer.types[k] # TextPlain) =>
             \A r \in 1..Len(heap) : heap'[r].status = heap[r].status]_allVars

\* Files hover over the Finished column and are not accepted, after an accepted
\* drop has moved a project there.
C12_Witness ==
  /\ dataTransfer.active
  /\ dataTransfer.types = <<"Files">>
  /\ over = Finished
  /\ ~accepted
  /\ ~droppable[Active]
  /\ moved
  /\ \E r \in 1..Len(heap) : heap[r].status = Finished

\* C19: the drop-target highlight is cleared on leave or drop. A column is
\* highlighted only while a drag whose first type is text/plain hovers over it,
\* so no column is highlighted once the gesture has ended.
C19_HighlightCleared ==
  \A c \in ProjectStatus :
    droppable[c] => (Accepts(dataTransfer) /\ over = c)

\* What does hold: a dragleave clears the highlight, and only a drop leaves a
\* column highlighted after the gesture.
C19_ClearedOnLeave ==
  [][/\ \A c \in ProjectStatus :
          DragLeave(c) => ~droppable'[c]
     /\ \A c \in ProjectStatus :
          (droppable'[c] /\ ~dataTransfer'.active /\ dataTransfer.active) =>
            (Drop(c) \/ (droppable[c] /\ over # c))]_allVars

\* The position of the first project in creation order that holds id, 0 when
\* no project does.
FirstWithId(id) ==
  IF NoProjectHasId(id) THEN 0
  ELSE CHOOSE k \in 1..Len(projects) :
         /\ heap[projects[k]].id = id
         /\ \A j \in 1..(k - 1) : heap[projects[j]].id # id

\* C21: one project per transition. A moveProject(id, s) changes the status of
\* at most one project, the first in creation order that holds id, and sets it
\* to s; every other project keeps its status; and when that first project
\* already has status s, nothing changes and no listener is called, whatever
\* the status of a later project with the same id.
C21_OneProjectPerTransition ==
  [][\A id \in AllIds, st \in ProjectStatus :
       MoveProject(id, st) =>
         LET k == FirstWithId(id)
         IN /\ \A r \in 1..Len(heap) :
                 heap'[r].status # heap[r].status =>
                   (k # 0 /\ r = projects[k] /\ heap'[r].status = st)
            /\ Len(heap') = Len(heap)
            /\ projects' = projects
            /\ (k # 0 /\ heap[projects[k]].status = st) => NothingHappens]_vars

\* Two projects share an id; a moveProject has just changed the first of them
\* and left the second as it was.
C21_Witness ==
  /\ Len(projects) = 2
  /\ heap[projects[1]].id = heap[projects[2]].id
  /\ heap[projects[1]].status = Finished
  /\ heap[projects[2]].status = Active
  /\ last.op = "moveProject"
  /\ last.changed
  /\ listeners # <<>>

\* The deliveries of the latest operation that went to listener i, by position.
DeliveriesTo(op, i) == {d \in 1..Len(op.pass) : op.pass[d].listener = i}

\* The greatest element of a non-empty set of numbers.
Max(S) == CHOOSE m \in S : \A n \in S : n <= m

\* C22: re-entrant notification. When listeners call addProject or moveProject
\* while they are notified, every nested operation runs a whole pass of its
\* own, every array delivered holds what this.projects holds at the moment of
\* the delivery, and when the outermost operation has returned the array each
\* listener received last is the final projects sequence, with the final
\* statuses.
C22_ReentrantNotification ==
  [][(last'.changed /\ listeners # <<>>) =>
       /\ Len(last'.pass) % Len(listeners) = 0
       /\ \A d \in 1..Len(last'.pass) :
            last'.pass[d].snapshot = last'.pass[d].canonical
       /\ \A i \in 1..Len(listeners) :
            /\ DeliveriesTo(last', i) # {}
            /\ LET d == last'.pass[Max(DeliveriesTo(last', i))]
               IN /\ d.snapshot = projects'
                  /\ d.records = [k \in 1..Len(projects') |-> heap'[projects'[k]]]
            /\ args'[i].items = projects']_vars

\* An adder followed by a mover, after one addProject from outside: the adder
\* was handed the first project alone and created a second, the mover moved
\* both, and the outer pass then reached the mover with both Finished.
C22_Witness ==
  /\ Len(listeners) = 2
  /\ listeners[1].kind = "adder"
  /\ listeners[2].kind = "mover"
  /\ last.op = "addProject"
  /\ mutations = 1
  /\ Len(projects) = 2
  /\ \A k \in 1..2 : heap[projects[k]].status = Finished
  /\ Len(last.pass) = 8
  /\ Len(last.pass[1].snapshot) = 1
  /\ last.pass[8].listener = 2
  /\ Len(last.pass[8].snapshot) = 2

====
